---- MODULE Spec2Model ----
(***************************************************************************)
(* rxec: one base command run against a list of argument variants, each    *)
(* variant repeated `number` times, under a serial / capped / unbounded    *)
(* admission policy, with an optional per-run timeout and (serial only) a  *)
(* pacing interval.  The model follows src/src/main.rs: Tasks::pop, run    *)
(* (queue construction, initial admission, the join_next loop and the log  *)
(* write) and exec (spawn, the timeout/wait select!, the pacing sleep and  *)
(* the result tag).                                                        *)
(*                                                                         *)
(* Option<T> is modelled as a set: {} is None and {x} is Some(x).          *)
(* Time is modelled by countdown timers that the Tick action advances.     *)
(***************************************************************************)
EXTENDS Integers, Sequences, FiniteSets, TLC

\* ---------------------------------------------------------------- bounds
MaxVariants == 3      \* longest conf.args list explored
MaxNumber   == 3      \* largest conf.number explored
MaxUnits    == 3      \* largest backlog (variants * number) explored
MaxParallel == 2      \* largest conf.parallel = Some(n) explored
MaxTimeout  == 1      \* largest conf.timeout = Some(t) explored (seconds)
MaxInterval == 1      \* largest conf.interval explored (seconds)

VARIABLES
    conf,      \* the resolved configuration (Conf), fixed after load_config
    pc,        \* position of run(): "start", "loop", "done", "failed", "panicked"
    tasks,     \* Tasks(VecDeque<Task>), the backlog
    units,     \* every exec() future spawned so far, in admission order
    set,       \* JoinSet: indices of units spawned and not yet joined
    files,     \* names of the log files present in the output directory
    outdir,    \* whether create_dir has made the output directory
    sinceEnd   \* seconds since a harness last saw its process end (capped)

vars == <<conf, pc, tasks, units, set, files, outdir, sinceEnd>>

\* ------------------------------------------------------------- Option<T>
None == {}

Some(x) == {x}

Unwrap(o) == CHOOSE x \in o : TRUE

Min(a, b) == IF a <= b THEN a ELSE b

\* ------------------------------------------------------------- TaskQueue
\* Tasks::is_empty
IsEmpty(q) == Len(q) = 0

\* A plausible slip in Tasks::pop: back_mut / pop_back instead of the front.
PopFromBack(q) ==
    IF Len(q) > 0
    THEN LET n == Len(q)
             t == [q[n] EXCEPT !.number = @ - 1]
         IN  IF q[n].number > 1
             THEN [task |-> Some(t), rest |-> SubSeq(q, 1, n - 1) \o <<t>>]
             ELSE [task |-> Some(t), rest |-> SubSeq(q, 1, n - 1)]
    ELSE [task |-> None, rest |-> q]

\* A plausible slip in Tasks::pop: the front task is removed one pop late.
PopLate(q) ==
    IF Len(q) > 0
    THEN IF Head(q).number > 0
         THEN LET t == [Head(q) EXCEPT !.number = @ - 1]
              IN  [task |-> Some(t), rest |-> <<t>> \o Tail(q)]
         ELSE [task |-> Some([Head(q) EXCEPT !.number = @ - 1]),
               rest |-> Tail(q)]
    ELSE [task |-> None, rest |-> q]

\* Tasks::pop: the front task's counter is decremented BEFORE the clone is
\* taken, so the returned task carries the decremented number.  number is a
\* u32 that clap keeps >= 1 (config.rs line 52), so `-= 1` never wraps here.
Pop(q) ==
    IF Len(q) > 0
    THEN IF Head(q).number > 1
         THEN LET t == [Head(q) EXCEPT !.number = @ - 1]
              IN  [task |-> Some(t), rest |-> <<t>> \o Tail(q)]
         ELSE [task |-> Some([Head(q) EXCEPT !.number = @ - 1]),
               rest |-> Tail(q)]
    ELSE [task |-> None, rest |-> q]

\* run(), lines 79-96: one Task per variant; an empty variant adds no argument.
BuildTasks(c) ==
    [i \in 1..Len(c.args) |->
        [cmd    |-> c.cmd[1],
         args   |-> IF c.args[i] # ""
                    THEN SubSeq(c.cmd, 2, Len(c.cmd)) \o <<c.args[i]>>
                    ELSE SubSeq(c.cmd, 2, Len(c.cmd)),
         number |-> c.number,
         variant |-> i]]     \* ghost: position of the variant in conf.args

\* A plausible slip: the interval is passed to exec() under every policy.
IntervalOfAlways(c) == Some(c.interval)

\* run(), lines 102-106: the pacing interval reaches exec() only when
\* conf.parallel is not set.
IntervalOf(c) == IF c.parallel # None THEN None ELSE Some(c.interval)

\* exec(), lines 229-235: the label of a result is the task's last argument.
LabelOf(task) == IF Len(task.args) > 0 THEN task.args[Len(task.args)] ELSE ""

\* run(), line 159: "{arg}-{num}.log" inside the output directory.
LogName(arg, num) == arg \o "-" \o ToString(num) \o ".log"

\* ------------------------------------------------------ ExecutionHarness
\* A freshly spawned exec() future: nothing of its body has run yet.
\*   st     : "new", "racing" (inside select!), "pacing" (line 226), "ready"
\*            (returned, not yet joined), "joined"
\*   child  : "none", "running", "blocked" (alive, stopped in a write to the
\*            full stdout pipe), "exited", "killed"
\*   res    : "pending", Ok(output) = "ok", or the Err: "spawn", "timeout",
\*            "io" (wait() or a stream read failed)
\*   status : exit status inside Ok(output): 0, or 1 for any non-zero status
\*   tleft / pleft : seconds left on the timeout / pacing timer
\*   via, gap, logged : ghosts (how it was admitted, seconds between the
\*            previous process end and this admission, whether run() wrote
\*            its log file)
NewUnit(task, via, gap) ==
    [task |-> task, st |-> "new", child |-> "none", res |-> "pending",
     status |-> 0, tleft |-> 0, pleft |-> 0, via |-> via, gap |-> gap,
     logged |-> FALSE]

\* exec(), lines 183-190: the process is spawned with stdout piped and the
\* timeout sleep armed with timeout.unwrap_or(0).  child is "running", or
\* "blocked" for a child that writes more than the pipe holds.
Spawned(u, timeout, child) ==
    [u EXCEPT !.st = "racing", !.child = child,
              !.tleft = IF timeout = None THEN 0 ELSE Unwrap(timeout)]

\* The `?` of lines 187, 204 and 209: exec() returns the error at once.
EarlyReturn(u, res) == [u EXCEPT !.st = "ready", !.res = res, !.tleft = 0]

\* exec(), lines 225-235: after select! the pacing sleep runs when an interval
\* was passed in, then the result is returned.  The timeout sleep is not
\* polled again once select! has completed.
AfterSelect(u, res, interval) ==
    IF interval # None
    THEN [u EXCEPT !.st = "pacing", !.res = res, !.tleft = 0,
                   !.pleft = Unwrap(interval)]
    ELSE [u EXCEPT !.st = "ready", !.res = res, !.tleft = 0]

\* select!, line 193: the sleep branch is enabled only with a timeout and is
\* ready once the timer has run down.
TimerReady(u, timeout) == timeout # None /\ u.tleft = 0

\* A plausible slip: the timed-out run is returned as a normal result.
TimeoutBranchAsOk(u, interval) ==
    AfterSelect([u EXCEPT !.child = "killed"], "ok", interval)

\* select!, lines 193-198: kill the child, the result is Err("Timeout").
\* (SIGKILL sent to the process's own running child is taken to succeed.)
TimeoutBranch(u, interval) ==
    AfterSelect([u EXCEPT !.child = "killed"], "timeout", interval)

\* select!, line 200: child.wait() completes when the child exits.  Nothing
\* reads the stdout pipe before that (the reads are lines 203-210, after
\* wait), so a child blocked writing to the full pipe never exits.
WaitReady(u) == u.child = "running"

\* select!, lines 200-222: the child has exited with `status`; io is how
\* wait() and the stream reads went: "ok" -> Ok(output), "wait" ->
\* Err("Failed to wait child process"), "read" -> read_to_end failed and `?`
\* returns early.
WaitBranch(u, io, status, interval) ==
    IF io = "read"
    THEN EarlyReturn([u EXCEPT !.child = "exited"], "io")
    ELSE IF io = "wait"
    THEN AfterSelect([u EXCEPT !.child = "exited"], "io", interval)
    ELSE AfterSelect([u EXCEPT !.child = "exited", !.status = status], "ok", interval)

\* ------------------------------------------------------------- Scheduler
\* A plausible slip: Some(0) handled by the Some(n) arm, which stops after the
\* first push because pushed >= 0.
PushOne(q, us) ==
    LET p == Pop(q) IN
    IF p.task = None
    THEN [units |-> us, tasks |-> p.rest]
    ELSE [units |-> Append(us, NewUnit(Unwrap(p.task), "initial", 0)),
          tasks |-> p.rest]

RECURSIVE PushAll(_, _)
\* run(), lines 126-131: Some(0) pushes every task.
PushAll(q, us) ==
    LET p == Pop(q) IN
    IF p.task = None
    THEN [units |-> us, tasks |-> p.rest]
    ELSE PushAll(p.rest, Append(us, NewUnit(Unwrap(p.task), "initial", 0)))

RECURSIVE PushNOffByOne(_, _, _, _)
\* A plausible slip: the loop breaks on pushed > n, one push too late.
PushNOffByOne(q, us, pushed, n) ==
    LET p == Pop(q) IN
    IF p.task = None
    THEN [units |-> us, tasks |-> p.rest]
    ELSE LET us2 == Append(us, NewUnit(Unwrap(p.task), "initial", 0)) IN
         IF pushed + 1 > n
         THEN [units |-> us2, tasks |-> p.rest]
         ELSE PushNOffByOne(p.rest, us2, pushed + 1, n)

RECURSIVE PushN(_, _, _, _)
\* run(), lines 132-142: Some(n) pushes until pushed >= n.
PushN(q, us, pushed, n) ==
    LET p == Pop(q) IN
    IF p.task = None
    THEN [units |-> us, tasks |-> p.rest]
    ELSE LET us2 == Append(us, NewUnit(Unwrap(p.task), "initial", 0)) IN
         IF pushed + 1 >= n
         THEN [units |-> us2, tasks |-> p.rest]
         ELSE PushN(p.rest, us2, pushed + 1, n)

\* A plausible slip: without conf.parallel the whole queue is pushed.
InitialAdmissionNoSerial(c, q) ==
    IF c.parallel = None \/ Unwrap(c.parallel) = 0
    THEN PushAll(q, <<>>)
    ELSE PushN(q, <<>>, 0, Unwrap(c.parallel))

\* run(), lines 118-143: the match on conf.parallel.
InitialAdmission(c, q) ==
    IF c.parallel = None
    THEN LET p == Pop(q) IN
         [units |-> <<NewUnit(Unwrap(p.task), "initial", 0)>>, tasks |-> p.rest]
    ELSE IF Unwrap(c.parallel) = 0
         THEN PushAll(q, <<>>)
         ELSE PushN(q, <<>>, 0, Unwrap(c.parallel))

\* run(), lines 147-154: one replacement is spawned when the queue is not empty.
Replenish(q, us, gap) ==
    IF ~IsEmpty(q)
    THEN LET p == Pop(q) IN
         [units |-> Append(us, NewUnit(Unwrap(p.task), "replenish", gap)),
          tasks |-> p.rest]
    ELSE [units |-> us, tasks |-> q]

\* A plausible slip: create_dir is called after the first units are spawned.
FailedStartAfterAdmission(c, q) == InitialAdmission(c, q)

\* run(), lines 112-114: `create_dir(..)?` returns the error before block_on,
\* with the queue as built and nothing spawned.
FailedStart(c, q) == [units |-> <<>>, tasks |-> q]

\* A plausible slip: the timeout ends every run that is inside select!.
TimeoutAll(us, i, interval) ==
    [j \in DOMAIN us |->
        IF us[j].st = "racing" THEN TimeoutBranch(us[j], interval) ELSE us[j]]

\* exec(), lines 193-198: the sleep branch of unit i's select! acts on that
\* future's own child only.
TimeoutOne(us, i, interval) == [us EXCEPT ![i] = TimeoutBranch(@, interval)]

\* A plausible slip: every joined result is written, whatever it is.
SavesLogAlways(u) == TRUE

\* run(), lines 157-168: only Ok(Ok((arg, num, output))) reaches the write.
SavesLog(u) == u.res = "ok"

\* A plausible slip: the directory is created before the empty queue returns.
CreatesDirAlways(q) == TRUE

\* run(), lines 98-112: create_dir is reached only past the early return on
\* an empty queue.
CreatesDir(q) == ~IsEmpty(q)

\* A plausible slip: an Err result is propagated (as with `?`) and ends run().
PanicsOnErr(u, writeOk) == u.res # "ok" \/ ~writeOk

\* run(), lines 161-163: .expect("Failed to write output") panics when the
\* write that was attempted fails.
Panics(u, writeOk) == u.res = "ok" /\ ~writeOk

\* ---------------------------------------------------------------- states
\* The k-th argument variant explored: "a", "", "a", "b", "a", "", ...  (a
\* named variant, the empty variant, a repeated variant, a second name).
VariantAt(k) == <<"a", "", "a", "b">>[((k - 1) % 4) + 1]

\* conf.args: clap's default <<"">>, and the first v variants for every v.
ArgLists == {<<"">>} \cup {[k \in 1..v |-> VariantAt(k)] : v \in 0..MaxVariants}

\* The configurations explored.  With conf.parallel set the interval never
\* reaches exec() (IntervalOf), so only the largest interval is explored there.
\* A timeout of t seconds passes through every shorter remaining time as its
\* timer runs down, so only the largest timeout is explored.
\* Fixed leading arguments (conf.cmd[1..]) change only the arguments and the
\* label of a run, so they are explored under Serial without timeout only.
\* A child that blocks on the full stdout pipe is explored without timeout
\* only: with a timeout it behaves as a child that is still running when the
\* timer runs down.
Confs ==
    {c \in [cmd      : {<<"echo">>, <<"echo", "-n">>},
            args     : ArgLists,
            number   : 1..MaxNumber,
            parallel : {None} \cup {Some(n) : n \in 0..MaxParallel},
            timeout  : {None, Some(MaxTimeout)},
            interval : {0, MaxInterval}] :
        /\ Len(c.args) * c.number <= MaxUnits
        /\ c.parallel # None => c.interval = MaxInterval
        /\ Len(c.cmd) > 1 => c.parallel = None /\ c.timeout = None
                                /\ c.interval = 0}

\* The children command.spawn() can yield under configuration c.
Children(c) == IF c.timeout = None THEN {"running", "blocked"} ELSE {"running"}

Init ==
    /\ conf \in Confs
    /\ pc = "start"
    /\ tasks = <<>>
    /\ units = <<>>
    /\ set = {}
    /\ files = {}
    /\ outdir = FALSE
    /\ sinceEnd = 0

\* run(), lines 78-143: build the queue, return if it is empty, create the
\* output directory (dirOk: whether create_dir succeeds), admit the first units.
RunStart ==
    /\ pc = "start"
    /\ LET q == BuildTasks(conf) IN
       IF IsEmpty(q)
       THEN /\ pc' = "done"
            /\ tasks' = q
            /\ outdir' = CreatesDir(q)
            /\ UNCHANGED <<units, set>>
       ELSE \E dirOk \in BOOLEAN :
            IF ~dirOk
            THEN LET f == FailedStart(conf, q) IN
                 /\ pc' = "failed"
                 /\ tasks' = f.tasks
                 /\ units' = f.units
                 /\ set' = DOMAIN f.units
                 /\ outdir' = FALSE
            ELSE LET a == InitialAdmission(conf, q) IN
                 /\ pc' = "loop"
                 /\ tasks' = a.tasks
                 /\ units' = a.units
                 /\ set' = DOMAIN a.units
                 /\ outdir' = CreatesDir(q)
    /\ UNCHANGED <<conf, files, sinceEnd>>

\* The pacing clock: seconds since the last process end, counted up to the
\* interval that reaches exec() (0 when none does).
Clock(c, t) == IF IntervalOf(c) # None THEN Min(t, Unwrap(IntervalOf(c))) ELSE 0

\* One second passes: every armed timer runs down.
Tick ==
    /\ pc = "loop"
    /\ units' = [i \in DOMAIN units |->
                    IF units[i].st = "racing" /\ units[i].tleft > 0
                    THEN [units[i] EXCEPT !.tleft = @ - 1]
                    ELSE IF units[i].st = "pacing" /\ units[i].pleft > 0
                    THEN [units[i] EXCEPT !.pleft = @ - 1]
                    ELSE units[i]]
    /\ sinceEnd' = Clock(conf, sinceEnd + 1)
    /\ UNCHANGED <<conf, pc, tasks, set, files, outdir>>

\* exec(), first poll up to select!: spawnOk is whether command.spawn() works.
ExecSpawn(i) ==
    /\ pc = "loop"
    /\ units[i].st = "new"
    /\ \E spawnOk \in BOOLEAN :
          IF spawnOk
          THEN /\ \E child \in Children(conf) :
                    units' = [units EXCEPT ![i] = Spawned(@, conf.timeout, child)]
               /\ UNCHANGED sinceEnd
          ELSE /\ units' = [units EXCEPT ![i] = EarlyReturn(@, "spawn")]
               /\ sinceEnd' = 0
    /\ UNCHANGED <<conf, pc, tasks, set, files, outdir>>

\* exec(), select!: the sleep branch is taken once the timer has run down, the
\* wait branch when the child exits (it may exit at any moment, also at the
\* very moment the timer runs down: tokio then takes either branch).
ExecSelect(i) ==
    /\ pc = "loop"
    /\ units[i].st = "racing"
    /\ \/ /\ TimerReady(units[i], conf.timeout)
          /\ units' = TimeoutOne(units, i, IntervalOf(conf))
       \/ /\ WaitReady(units[i])
          /\ \E io \in {"ok", "wait", "read"}, status \in {0, 1} :
                units' = [units EXCEPT ![i] = WaitBranch(@, io, status, IntervalOf(conf))]
    /\ sinceEnd' = 0
    /\ UNCHANGED <<conf, pc, tasks, set, files, outdir>>

\* exec(), line 226: the pacing sleep is over and exec() returns.
ExecPace(i) ==
    /\ pc = "loop"
    /\ units[i].st = "pacing"
    /\ units[i].pleft = 0
    /\ units' = [units EXCEPT ![i].st = "ready"]
    /\ UNCHANGED <<conf, pc, tasks, set, files, outdir, sinceEnd>>

\* run(), lines 146-169, one turn of the loop: join_next() yields a returned
\* unit, a replacement is spawned, then the log is written (writeOk: whether
\* tokio::fs::write succeeds; .expect panics when it does not).  The panic
\* unwinds out of block_on and ends the process: "panicked" is a final state
\* that keeps the state the process died in.
Join(i) ==
    /\ pc = "loop"
    /\ i \in set
    /\ units[i].st = "ready"
    /\ LET r  == Replenish(tasks, units, sinceEnd)
           u  == units[i]
       IN  /\ tasks' = r.tasks
           /\ set' = (set \ {i}) \cup (DOMAIN r.units \ DOMAIN units)
           /\ \E writeOk \in BOOLEAN :
                 LET wrote == SavesLog(u) /\ writeOk IN
                 /\ files' = IF wrote
                             THEN files \cup {LogName(LabelOf(u.task), u.task.number)}
                             ELSE files
                 /\ units' = [r.units EXCEPT ![i].st = "joined", ![i].logged = wrote]
                 /\ pc' = IF Panics(u, writeOk) THEN "panicked" ELSE pc
    /\ UNCHANGED <<conf, outdir, sinceEnd>>

\* run(), line 146: join_next() returns None on an empty set, the loop ends.
JoinNone ==
    /\ pc = "loop"
    /\ set = {}
    /\ pc' = "done"
    /\ UNCHANGED <<conf, tasks, units, set, files, outdir, sinceEnd>>

Next ==
    \/ RunStart
    \/ Tick
    \/ \E i \in DOMAIN units : ExecSpawn(i)
    \/ \E i \in DOMAIN units : ExecSelect(i)
    \/ \E i \in DOMAIN units : ExecPace(i)
    \/ \E i \in DOMAIN units : Join(i)
    \/ JoinNone

Spec == Init /\ [][Next]_vars

\* ---------------------------------------------------------------- claims
\* The backlog size m = r * v.
Backlog == Len(conf.args) * conf.number

\* The initial admission step of run() has been done.
AdmissionDone == pc \in {"loop", "done", "panicked"}

\* Executions in flight: spawned into the JoinSet and not yet joined.
InFlight == Cardinality(set)

AllUnits == DOMAIN units

\* C1: under Capped(N), N >= 1, with a backlog of more than N runs, at most N
\* executions are in flight in every state, and after the initial admission
\* fewer than N are in flight only when the queue is already empty.
C1_CappedWidth ==
    (conf.parallel # None /\ Unwrap(conf.parallel) >= 1
        /\ Backlog > Unwrap(conf.parallel))
    => /\ InFlight <= Unwrap(conf.parallel)
       /\ (AdmissionDone /\ InFlight < Unwrap(conf.parallel)) => IsEmpty(tasks)

\* C1 witness: Capped(2) with three runs, the third admitted by replenishment,
\* and one of the final runs left in flight.
C1_Witness ==
    /\ conf.parallel = Some(2)
    /\ Backlog = 3
    /\ pc = "loop"
    /\ Len(units) = 3
    /\ units[3].via = "replenish"
    /\ InFlight = 1
    /\ IsEmpty(tasks)

RECURSIVE PopsLeft(_)
\* How many pops return Some before pop() returns None.
PopsLeft(q) == IF Pop(q).task = None THEN 0 ELSE 1 + PopsLeft(Pop(q).rest)

\* C2: a queue built from v variants with repeat count r yields exactly r * v
\* successful pops: the pops done so far plus the pops still to come are
\* r * v, and is_empty() is true, and pop() returns None, exactly when r * v
\* pops have been done.
C2_PopCount ==
    pc # "start"
    => /\ Len(units) + PopsLeft(tasks) = Backlog
       /\ IsEmpty(tasks) <=> Len(units) = Backlog
       /\ IsEmpty(tasks) <=> Pop(tasks).task = None

\* C2 witness: one variant repeated three times, popped three times, now empty.
C2_Witness ==
    /\ Len(conf.args) = 1
    /\ conf.number = 3
    /\ Len(units) = 3
    /\ IsEmpty(tasks)
    /\ Pop(tasks).task = None

\* C3: under Serial at most one unit is in flight, and every unit admitted
\* before the latest one has already been joined (its exec() has returned).
C3_SerialOneInFlight ==
    conf.parallel = None
    => /\ InFlight <= 1
       /\ \A i \in AllUnits : i < Len(units) => units[i].st = "joined"

\* C3 witness: Serial, the second unit running after the first was joined.
C3_Witness ==
    /\ conf.parallel = None
    /\ Len(units) >= 2
    /\ units[1].st = "joined"
    /\ units[2].st = "racing"
    /\ ~IsEmpty(tasks)

\* C5: under Unbounded (parallel = Some(0)) the initial admission admits the
\* whole backlog, and no unit is ever admitted by replenishment.
C5_UnboundedAllAtOnce ==
    (conf.parallel = Some(0) /\ AdmissionDone)
    => /\ Len(units) = Backlog
       /\ IsEmpty(tasks)
       /\ \A i \in AllUnits : units[i].via = "initial"

\* C5 witness: Unbounded with three runs, one already joined, two in flight.
C5_Witness ==
    /\ conf.parallel = Some(0)
    /\ Backlog = 3
    /\ pc = "loop"
    /\ InFlight = 2
    /\ \E i \in AllUnits : units[i].st = "joined"

\* C4 (the claim as stated): under Serial with interval I > 0, every unit after
\* the first is admitted at least I seconds after the previous unit's process
\* ended, whatever that unit's outcome.
C4_PacingGap ==
    (conf.parallel = None /\ conf.interval > 0)
    => \A i \in AllUnits : i >= 2 => units[i].gap >= conf.interval

\* The log write of unit i was attempted and failed.
WriteFailed(i) ==
    units[i].st = "joined" /\ units[i].res = "ok" /\ ~units[i].logged

\* C6: a unit's failure never aborts the scheduler: run() is cut short only by
\* a failed log write of an Ok result, never by an Err result; while the queue
\* is not empty a unit is in flight; and when the loop ends every one of the
\* r * v runs has been admitted and joined.
C6_FailureIsolation ==
    /\ pc = "panicked" => \E i \in AllUnits : WriteFailed(i)
    /\ (pc = "loop" /\ ~IsEmpty(tasks)) => set # {}
    /\ pc = "done" => /\ Len(units) = Backlog
                      /\ \A i \in AllUnits : units[i].st = "joined"

\* C6 witness: three runs ending in a spawn failure, a timeout and a non-zero
\* exit, and run() at its end.
C6_Witness ==
    /\ pc = "done"
    /\ Len(units) = 3
    /\ \E i \in AllUnits : units[i].res = "spawn"
    /\ \E i \in AllUnits : units[i].res = "timeout"
    /\ \E i \in AllUnits : units[i].res = "ok" /\ units[i].status = 1

\* C7 (the claim as stated): a failed log write is not fatal, run() goes on
\* after it.
C7_WriteFailureNonFatal ==
    (\E i \in AllUnits : WriteFailed(i)) => pc \in {"loop", "done"}

KthRun(i) ==
    Cardinality({j \in 1..i : units[j].task.variant = units[i].task.variant})

\* C9 (the claim as stated): the k-th run of a variant is tagged with repeat
\* index k, and its log file, when written, is {label}-k.log.
C9_RepeatIndex ==
    \A i \in AllUnits :
        /\ units[i].task.number = KthRun(i)
        /\ units[i].logged
              => LogName(LabelOf(units[i].task), KthRun(i)) \in files

\* C10 (the claim as stated): a log file is written only for a run that exited
\* with status zero.
C10_LogOnlyOnSuccess ==
    \A i \in AllUnits :
        units[i].logged => units[i].res = "ok" /\ units[i].status = 0

\* C11 (the claim as stated): every run's label is the variant string its
\* task was built from, the empty string for the empty variant, whatever the
\* fixed leading arguments are.
C11_LabelIsVariant ==
    \A i \in AllUnits :
        LabelOf(units[i].task) = conf.args[units[i].task.variant]

\* C12 (the claim as stated): no two distinct runs get the same
\* (label, repeat index) pair, hence never the same log file name.
C12_UniqueLogNames ==
    \A i, j \in AllUnits :
        i # j => LogName(LabelOf(units[i].task), units[i].task.number)
                   # LogName(LabelOf(units[j].task), units[j].task.number)

\* The join_next loop of run() has been left.
LoopEnded == pc \in {"done", "panicked"}

\* C13 (the claim as stated, its safety part): the loop ends only with the
\* queue empty and nothing in flight, every one of the r * v runs admitted
\* once and joined once.
C13_EndsDrained ==
    LoopEnded => /\ IsEmpty(tasks)
                 /\ set = {}
                 /\ Len(units) = Backlog
                 /\ \A i \in AllUnits : units[i].st = "joined"

\* C14: with an empty variants list run() returns at once: no unit is ever
\* admitted, no output directory is created and no log file is written.
C14_EmptyVariants ==
    Len(conf.args) = 0
    => /\ pc \in {"start", "done"}
       /\ units = <<>>
       /\ set = {}
       /\ ~outdir
       /\ files = {}

\* C14 witness: run() has returned for an empty variants list.
C14_Witness ==
    /\ Len(conf.args) = 0
    /\ pc = "done"
    /\ IsEmpty(tasks)

\* C15: when the output directory cannot be created run() fails before any
\* task is popped from the queue and before any exec() is spawned.
C15_DirFailureFirst ==
    pc = "failed"
    => /\ tasks = BuildTasks(conf)
       /\ units = <<>>
       /\ set = {}
       /\ ~outdir
       /\ files = {}

\* C15 witness: create_dir failed with a backlog of three runs.
C15_Witness ==
    /\ pc = "failed"
    /\ Backlog = 3
    /\ Len(tasks) = Len(conf.args)

C18_TimeoutIsLocal ==
    [][\A i \in DOMAIN units :
          (units[i].st = "racing" /\ units'[i].res = "timeout")
          => /\ \A j \in DOMAIN units \ {i} : units'[j] = units[j]
             /\ DOMAIN units' = DOMAIN units
             /\ tasks' = tasks
             /\ set' = set
             /\ files' = files
             /\ pc' = pc]_vars

\* C18 witness: one unit has timed out while another is still inside select!
\* with its child running and the queue not yet empty.
C18_Witness ==
    /\ pc = "loop"
    /\ ~IsEmpty(tasks)
    /\ \E i, j \in AllUnits :
          /\ units[i].res = "timeout" /\ units[i].child = "killed"
          /\ units[j].st = "racing" /\ units[j].child = "running"

\* C19: with conf.parallel set (0 or N >= 1) no exec() ever sits in the pacing
\* sleep, whatever interval is configured.
C19_NoPacingWhenParallel ==
    conf.parallel # None
    => \A i \in AllUnits : units[i].st # "pacing" /\ units[i].pleft = 0

\* C19 witness: parallel set, a positive interval configured, a run returned.
C19_Witness ==
    /\ conf.parallel # None
    /\ conf.interval > 0
    /\ \E i \in AllUnits : units[i].st = "ready" /\ units[i].res = "ok"

\* C20 (the claim as stated): without timeout a harness inside select! can
\* always go on, also for a child that fills the stdout pipe.
C20_NoPipeDeadlock ==
    \A i \in AllUnits :
        (conf.timeout = None /\ units[i].st = "racing") => ENABLED ExecSelect(i)

====
